---- MODULE Spec2Model ----
(***************************************************************************)
(* Model of the retrieval-augmented answering engine of                    *)
(* scripts/query_rag.py (class EldenRingRAG) and of the two shells that    *)
(* drive it: the command-line loop of query_rag.main and the streamlit     *)
(* page of app.main.                                                       *)
(*                                                                         *)
(* Python lists are objects with identity: the conversation history is a   *)
(* heap cell that the shell and the running answer_question call both      *)
(* reference.  Strings are modelled as strings, so that the formatting     *)
(* functions are computed as the code computes them.                       *)
(***************************************************************************)
EXTENDS Integers, Sequences, FiniteSets, TLC

(***************************************************************************)
(* Bounds of the model.                                                    *)
(***************************************************************************)
MaxTurns == 7          \* longest conversation history explored
MaxLists == 3          \* list objects alive at one time
MaxCalls == 2          \* answer_question calls in flight at one time
MaxFmtTurns == 3       \* longest history given to format_history on its own
MaxFmtWindow == 3      \* largest history_max_turns given to format_history on its own
MaxFmtChunks == 3      \* longest chunk list given to format_context on its own
MaxLateTurns == 8      \* longest history explored from a conversation already under way
MaxDocLen == 5         \* longest document text given to the chunker, in characters
MaxChunkSize == 3      \* largest chunk_size given to the chunker
MaxDocs == 2           \* most documents in one run of split_into_chunks
MaxChunks == 4         \* most chunk records given to the indexer
MaxBatch == 3          \* largest embedding batch size tried besides the default
MaxPrior == 1          \* longest history a direct caller of answer_question starts from
MaxVectors == 5        \* most vectors given to upload_to_pinecone
MaxTopK == 3           \* largest top_k given to retrieve_relevant_chunks on its own

(***************************************************************************)
(* Program constants.                                                      *)
(***************************************************************************)
history_max_turns == 6
NoPriorConversation == "(no prior conversation)"
FallbackAnswer == "i couldn't find any relevant information in the elden ring wiki for this question."

(***************************************************************************)
(* Inputs.                                                                 *)
(***************************************************************************)
Questions == {"Who is X?", "Who is Y?"}
LlmAnswers == {"X is a king."}
Turn(q, a) == [user |-> q, assistant |-> a]
Turns == {Turn(q, a) : q \in Questions, a \in LlmAnswers \cup {FallbackAnswer}}

MatchX == [score |-> 90, metadata |-> [text |-> "X is a king.", title |-> "X", url |-> "wiki/X"]]
MatchY == [score |-> 50, metadata |-> [text |-> "Y is a queen.", title |-> "Y", url |-> "wiki/Y"]]
IndexResults == {<<>>, <<MatchX>>, <<MatchX, MatchY>>}

(***************************************************************************)
(* Python values.                                                          *)
(***************************************************************************)
None == <<>>                       \* Optional[...]: None
Some(v) == <<v>>                   \* Optional[...]: a value
NoneRef == 0                       \* a reference that is None
ListIds == 1 .. MaxLists           \* identities of list objects
CallIds == 1 .. MaxCalls

Min(a, b) == IF a < b THEN a ELSE b

\* seq[start:] with Python's normalisation of the start index
PySliceFrom(seq, start) ==
  LET n == Len(seq)
      s0 == IF start < 0 THEN start + n ELSE start
      s == IF s0 < 0 THEN 0 ELSE IF s0 > n THEN n ELSE s0
  IN SubSeq(seq, s + 1, n)

\* sep.join(parts)
RECURSIVE Join(_, _)
Join(parts, sep) ==
  IF parts = <<>> THEN ""
  ELSE IF Len(parts) = 1 THEN parts[1]
  ELSE parts[1] \o sep \o Join(Tail(parts), sep)

(***************************************************************************)
(* EldenRingRAG.format_context                                             *)
(***************************************************************************)
\* format_context as it would be with enumerate(chunks) counting from 0
format_context_from0(chunks) ==
  LET context_parts ==
        [i \in 1 .. Len(chunks) |->
           "[source " \o ToString(i - 1) \o "] " \o chunks[i].title \o "\n" \o chunks[i].text]
  IN Join(context_parts, "\n\n")

format_context(chunks) ==
  LET context_parts ==
        [i \in 1 .. Len(chunks) |->
           "[source " \o ToString(i) \o "] " \o chunks[i].title \o "\n" \o chunks[i].text]
  IN Join(context_parts, "\n\n")

(***************************************************************************)
(* EldenRingRAG.format_history; history is an Optional list of turns and   *)
(* max_turns is self.history_max_turns.                                    *)
(***************************************************************************)
\* format_history as it would be if it kept the first turns, history[:max_turns]
format_history_first(history, max_turns) ==
  IF history = None \/ history[1] = <<>>
  THEN NoPriorConversation
  ELSE LET trimmed == SubSeq(history[1], 1, Min(max_turns, Len(history[1])))
           parts == [i \in 1 .. Len(trimmed) |->
                       "User: " \o trimmed[i].user \o "\nAssistant: " \o trimmed[i].assistant]
       IN Join(parts, "\n\n")

\* format_history as it would be if only None were given the sentinel
format_history_blank(history, max_turns) ==
  IF history = None
  THEN NoPriorConversation
  ELSE LET trimmed == PySliceFrom(history[1], 0 - max_turns)
           parts == [i \in 1 .. Len(trimmed) |->
                       "User: " \o trimmed[i].user \o "\nAssistant: " \o trimmed[i].assistant]
       IN Join(parts, "\n\n")

format_history(history, max_turns) ==
  IF history = None \/ history[1] = <<>>
  THEN NoPriorConversation
  ELSE LET trimmed == PySliceFrom(history[1], 0 - max_turns)
           parts == [i \in 1 .. Len(trimmed) |->
                       "User: " \o trimmed[i].user \o "\nAssistant: " \o trimmed[i].assistant]
       IN Join(parts, "\n\n")

(***************************************************************************)
(* The loop of retrieve_relevant_chunks that maps matches to chunks.       *)
(***************************************************************************)
\* ChunksOf as it would be if matches of a low score were left out
ChunksOf_thresholded(matches) ==
  LET kept == SelectSeq(matches, LAMBDA m : m.score >= 60)
  IN [i \in 1 .. Len(kept) |->
        [text |-> kept[i].metadata.text,
         score |-> kept[i].score,
         title |-> kept[i].metadata.title,
         url |-> kept[i].metadata.url]]

ChunksOf(matches) ==
  [i \in 1 .. Len(matches) |->
     [text |-> matches[i].metadata.text,
      score |-> matches[i].score,
      title |-> matches[i].metadata.title,
      url |-> matches[i].metadata.url]]

(***************************************************************************)
(* State.                                                                  *)
(***************************************************************************)
VARIABLES
  ui,        \* the caller of the engine: "cli" (query_rag.main), "app" (app.main) or "api" (a direct caller)
  running,   \* the command-line loop has not been left
  history,   \* the shell's history: the list object bound to `history` / st.session_state.history
  heap,      \* the list objects: identity -> sequence of turns
  calls,     \* the frames of answer_question
  asked,     \* history variable: the questions answered since the history was last cleared
  cleared,   \* history variable: the length of the history the last clear replaced, -1 once a question follows
  fmt,       \* a direct application of format_history or format_context
  rt,        \* a direct call of retrieve_relevant_chunks
  ck,        \* a run of EldenRingDataLoader.split_into_chunks
  ix         \* a run of EldenRingIndexer: prepare_vectors_for_pinecone or upload_to_pinecone

vars == <<ui, running, history, heap, calls, asked, cleared, fmt, rt, ck, ix>>

\* The frame of answer_question: its position, parameters and locals.  h0,
\* embed_calls, query_calls and llm_calls are history variables: the
\* contents of the history list when the call was entered, and the number of
\* calls of the embedder, of the index and of the chain.
IdleCall ==
  [pc |-> "idle", question |-> "", history |-> NoneRef, chunks |-> <<>>,
   context |-> "", history_str |-> "", answer |-> "", exc |-> "",
   h0 |-> <<>>, embed_calls |-> 0, query_calls |-> 0, llm_calls |-> 0]

\* the retriever, the chunker and the indexer when they are not run
NoRt == [pc |-> "off"]
NoCk == [pc |-> "off"]
NoIx == [pc |-> "off"]

NoFmt == [fn |-> "", history |-> None, max_turns |-> 0, chunks |-> <<>>, out |-> "", done |-> FALSE]

Active(c) == calls[c].pc # "idle"
NoCall == \A c \in CallIds : ~Active(c)

\* the lists the frames in cs still reference
FrameRefs(cs) == {cs[c].history : c \in {d \in CallIds : cs[d].pc # "idle"}} \ {NoneRef}

\* `[]`: a new list object; its identity is one no live object has
NewList(live) == CHOOSE i \in ListIds \ live : \A j \in ListIds \ live : i <= j

\* the heap once the objects nothing references are collected
Collect(h, live) == [i \in live |-> h[i]]

Init ==
  /\ ui \in {"cli", "app"}
  /\ running = TRUE
  /\ history = 1
  /\ heap = (1 :> <<>>)
  /\ calls = [c \in CallIds |-> IdleCall]
  /\ asked = <<>>
  /\ cleared = -1
  /\ fmt = NoFmt
  /\ rt = NoRt
  /\ ck = NoCk
  /\ ix = NoIx

(***************************************************************************)
(* EldenRingRAG.answer_question, step by step.                             *)
(***************************************************************************)
\* entry: the frame is created with its parameters
Enter(c, q, h) ==
  /\ ~Active(c)
  /\ calls' = [calls EXCEPT ![c] =
       [IdleCall EXCEPT !.pc = "embed", !.question = q, !.history = h,
                        !.h0 = IF h = NoneRef THEN <<>> ELSE heap[h]]]

\* retrieve_relevant_chunks: self.embedding_model.encode returns
Embed(c) ==
  /\ calls[c].pc = "embed"
  /\ calls' = [calls EXCEPT ![c].pc = "query", ![c].embed_calls = calls[c].embed_calls + 1]
  /\ UNCHANGED <<ui, running, history, heap, asked, cleared, fmt, rt, ck, ix>>

\* retrieve_relevant_chunks: self.embedding_model.encode raises
EmbedFail(c) ==
  /\ calls[c].pc = "embed"
  /\ calls' = [calls EXCEPT ![c].pc = "raised", ![c].exc = "embedder",
                            ![c].embed_calls = calls[c].embed_calls + 1]
  /\ UNCHANGED <<ui, running, history, heap, asked, cleared, fmt, rt, ck, ix>>

\* retrieve_relevant_chunks: self.index.query returns matches, which the
\* loop maps to chunks
Query(c, matches) ==
  /\ calls[c].pc = "query"
  /\ calls' = [calls EXCEPT ![c].pc = "retrieved", ![c].chunks = ChunksOf(matches),
                            ![c].query_calls = calls[c].query_calls + 1]
  /\ UNCHANGED <<ui, running, history, heap, asked, cleared, fmt, rt, ck, ix>>

\* QueryFail as it would be if the question were recorded before the failure surfaces
QueryFail_recording(c) ==
  /\ calls[c].pc = "query"
  /\ calls[c].history # NoneRef
  /\ heap' = [heap EXCEPT ![calls[c].history] = Append(@, Turn(calls[c].question, ""))]
  /\ calls' = [calls EXCEPT ![c].pc = "raised", ![c].exc = "index",
                            ![c].query_calls = calls[c].query_calls + 1]
  /\ UNCHANGED <<ui, running, history, asked, cleared, fmt, rt, ck, ix>>

\* retrieve_relevant_chunks: self.index.query raises
QueryFail(c) ==
  /\ calls[c].pc = "query"
  /\ calls' = [calls EXCEPT ![c].pc = "raised", ![c].exc = "index",
                            ![c].query_calls = calls[c].query_calls + 1]
  /\ UNCHANGED <<ui, running, history, heap, asked, cleared, fmt, rt, ck, ix>>

\* AppendTurn as it would be if the list were cut to the prompt window on write
AppendTurn_trimmed(c, answer) ==
  LET turn == Turn(calls[c].question, answer)
      h == calls[c].history
      live == DOMAIN heap
      target == IF h = NoneRef THEN NewList(live) ELSE h
      old == IF h = NoneRef THEN <<>> ELSE PySliceFrom(heap[h], 1 - history_max_turns)
  IN /\ h = NoneRef => ListIds \ live # {}
     /\ heap' = [i \in live \cup {target} |-> IF i = target THEN Append(old, turn) ELSE heap[i]]
     /\ calls' = [calls EXCEPT ![c].pc = "return", ![c].history = target,
                               ![c].answer = answer]

\* AppendTurn as it would be with the two keys of the turn exchanged
AppendTurn_swapped(c, answer) ==
  LET turn == Turn(answer, calls[c].question)
      h == calls[c].history
      live == DOMAIN heap
      target == IF h = NoneRef THEN NewList(live) ELSE h
      old == IF h = NoneRef THEN <<>> ELSE heap[h]
  IN /\ h = NoneRef => ListIds \ live # {}
     /\ heap' = [i \in live \cup {target} |-> IF i = target THEN Append(old, turn) ELSE heap[i]]
     /\ calls' = [calls EXCEPT ![c].pc = "return", ![c].history = target,
                               ![c].answer = answer]

\* AppendTurn as it would be if the turn were added to the contents read at entry
AppendTurn_stale(c, answer) ==
  LET turn == Turn(calls[c].question, answer)
      h == calls[c].history
      live == DOMAIN heap
      target == IF h = NoneRef THEN NewList(live) ELSE h
      old == IF h = NoneRef THEN <<>> ELSE calls[c].h0
  IN /\ h = NoneRef => ListIds \ live # {}
     /\ heap' = [i \in live \cup {target} |-> IF i = target THEN Append(old, turn) ELSE heap[i]]
     /\ calls' = [calls EXCEPT ![c].pc = "return", ![c].history = target,
                               ![c].answer = answer]

\* AppendTurn as it would be with `if not history: history = []`
AppendTurn_falsy(c, answer) ==
  LET turn == Turn(calls[c].question, answer)
      h == calls[c].history
      live == DOMAIN heap
      fresh == h = NoneRef \/ heap[h] = <<>>
      target == IF fresh THEN NewList(live) ELSE h
      old == IF fresh THEN <<>> ELSE heap[h]
  IN /\ fresh => ListIds \ live # {}
     /\ heap' = [i \in live \cup {target} |-> IF i = target THEN Append(old, turn) ELSE heap[i]]
     /\ calls' = [calls EXCEPT ![c].pc = "return", ![c].history = target,
                               ![c].answer = answer]

\* `if history is None: history = []` followed by history.append(turn)
AppendTurn(c, answer) ==
  LET turn == Turn(calls[c].question, answer)
      h == calls[c].history
      live == DOMAIN heap
      target == IF h = NoneRef THEN NewList(live) ELSE h
      old == IF h = NoneRef THEN <<>> ELSE heap[h]
  IN /\ h = NoneRef => ListIds \ live # {}
     /\ heap' = [i \in live \cup {target} |-> IF i = target THEN Append(old, turn) ELSE heap[i]]
     /\ calls' = [calls EXCEPT ![c].pc = "return", ![c].history = target,
                               ![c].answer = answer]

\* `if not chunks:` taken: the fallback answer is recorded and returned
EmptyResult(c) ==
  /\ calls[c].pc = "retrieved"
  /\ calls[c].chunks = <<>>
  /\ AppendTurn(c, FallbackAnswer)
  /\ UNCHANGED <<ui, running, history, asked, cleared, fmt, rt, ck, ix>>

\* FormatPrompt as it would be without the `if not chunks:` short-circuit
FormatPrompt_always(c) ==
  /\ calls[c].pc = "retrieved"
  /\ calls' = [calls EXCEPT
       ![c].pc = "generate",
       ![c].context = format_context(calls[c].chunks),
       ![c].history_str =
          format_history(IF calls[c].history = NoneRef THEN None
                         ELSE Some(heap[calls[c].history]), history_max_turns)]
  /\ UNCHANGED <<ui, running, history, heap, asked, cleared, fmt, rt, ck, ix>>

\* FormatPrompt as it would be if the question were put in the history before formatting
FormatPrompt_late(c) ==
  /\ calls[c].pc = "retrieved"
  /\ calls[c].chunks # <<>>
  /\ calls' = [calls EXCEPT
       ![c].pc = "generate",
       ![c].context = format_context(calls[c].chunks),
       ![c].history_str =
          format_history(IF calls[c].history = NoneRef THEN Some(<<Turn(calls[c].question, "")>>)
                         ELSE Some(Append(heap[calls[c].history], Turn(calls[c].question, ""))),
                         history_max_turns)]
  /\ UNCHANGED <<ui, running, history, heap, asked, cleared, fmt, rt, ck, ix>>

\* format_context and format_history
FormatPrompt(c) ==
  /\ calls[c].pc = "retrieved"
  /\ calls[c].chunks # <<>>
  /\ calls' = [calls EXCEPT
       ![c].pc = "generate",
       ![c].context = format_context(calls[c].chunks),
       ![c].history_str =
          format_history(IF calls[c].history = NoneRef THEN None
                         ELSE Some(heap[calls[c].history]), history_max_turns)]
  /\ UNCHANGED <<ui, running, history, heap, asked, cleared, fmt, rt, ck, ix>>

\* chain.invoke returns the answer
Generate(c, a) ==
  /\ calls[c].pc = "generate"
  /\ calls' = [calls EXCEPT ![c].pc = "record", ![c].answer = a,
                            ![c].llm_calls = calls[c].llm_calls + 1]
  /\ UNCHANGED <<ui, running, history, heap, asked, cleared, fmt, rt, ck, ix>>

\* GenerateFail as it would be if the turn were appended before chain.invoke
GenerateFail_recording(c) ==
  /\ calls[c].pc = "generate"
  /\ calls[c].history # NoneRef
  /\ heap' = [heap EXCEPT ![calls[c].history] = Append(@, Turn(calls[c].question, ""))]
  /\ calls' = [calls EXCEPT ![c].pc = "raised", ![c].exc = "llm",
                            ![c].llm_calls = calls[c].llm_calls + 1]
  /\ UNCHANGED <<ui, running, history, asked, cleared, fmt, rt, ck, ix>>

\* GenerateFail as it would be if a failed invocation were tried again
GenerateFail_retry(c) ==
  /\ calls[c].pc = "generate"
  /\ calls[c].llm_calls < 2
  /\ calls' = [calls EXCEPT ![c].llm_calls = calls[c].llm_calls + 1]
  /\ UNCHANGED <<ui, running, history, heap, asked, cleared, fmt, rt, ck, ix>>

\* GenerateFail as it would be if the failure were caught and the fallback answered
GenerateFail_swallowed(c) ==
  /\ calls[c].pc = "generate"
  /\ calls' = [calls EXCEPT ![c].pc = "record", ![c].exc = "llm", ![c].answer = FallbackAnswer,
                            ![c].llm_calls = calls[c].llm_calls + 1]
  /\ UNCHANGED <<ui, running, history, heap, asked, cleared, fmt, rt, ck, ix>>

\* chain.invoke raises
GenerateFail(c) ==
  /\ calls[c].pc = "generate"
  /\ calls' = [calls EXCEPT ![c].pc = "raised", ![c].exc = "llm",
                            ![c].llm_calls = calls[c].llm_calls + 1]
  /\ UNCHANGED <<ui, running, history, heap, asked, cleared, fmt, rt, ck, ix>>

\* the turn is appended and the triple returned
Record(c) ==
  /\ calls[c].pc = "record"
  /\ AppendTurn(c, calls[c].answer)
  /\ UNCHANGED <<ui, running, history, asked, cleared, fmt, rt, ck, ix>>

(***************************************************************************)
(* query_rag.main: the command-line loop.  A line is read only when the    *)
(* previous iteration is over, so no call is in flight.                    *)
(***************************************************************************)
\* a question is typed: answer_question is called with the loop's history
CliAsk(q) ==
  /\ ui = "cli" /\ running /\ NoCall
  /\ Len(heap[history]) < MaxTurns
  /\ Enter(1, q, history)
  /\ cleared' = -1
  /\ UNCHANGED <<ui, running, history, heap, asked, fmt, rt, ck, ix>>

\* the call returns: `answer, chunks, history = ...`
CliReturn(c) ==
  /\ ui = "cli"
  /\ calls[c].pc = "return"
  /\ history' = calls[c].history
  /\ calls' = [calls EXCEPT ![c] = IdleCall]
  /\ heap' = Collect(heap, {history'} \cup FrameRefs(calls'))
  /\ asked' = Append(asked, calls[c].question)
  /\ UNCHANGED <<ui, running, cleared, fmt, rt, ck, ix>>

\* the call raises: `except Exception as e: print(...)`
CliExcept(c) ==
  /\ ui = "cli"
  /\ calls[c].pc = "raised"
  /\ calls' = [calls EXCEPT ![c] = IdleCall]
  /\ heap' = Collect(heap, {history} \cup FrameRefs(calls'))
  /\ UNCHANGED <<ui, running, history, asked, cleared, fmt, rt, ck, ix>>

\* CliClear as it would be if the latest turn were kept
CliClear_partial ==
  /\ ui = "cli" /\ running /\ NoCall
  /\ history' = NewList(FrameRefs(calls))
  /\ heap' = [i \in FrameRefs(calls) \cup {history'} |->
               IF i = history' THEN PySliceFrom(heap[history], -1) ELSE heap[i]]
  /\ asked' = <<>>
  /\ cleared' = Len(heap[history])
  /\ UNCHANGED <<ui, running, calls, fmt, rt, ck, ix>>

\* "clear" is typed: `history = []`
CliClear ==
  /\ ui = "cli" /\ running /\ NoCall
  /\ history' = NewList(FrameRefs(calls))
  /\ heap' = [i \in FrameRefs(calls) \cup {history'} |-> IF i = history' THEN <<>> ELSE heap[i]]
  /\ asked' = <<>>
  /\ cleared' = Len(heap[history])
  /\ UNCHANGED <<ui, running, calls, fmt, rt, ck, ix>>

\* "exit" or "quit" is typed, or the input ends
CliExit ==
  /\ ui = "cli" /\ running /\ NoCall
  /\ running' = FALSE
  /\ UNCHANGED <<ui, history, heap, calls, asked, cleared, fmt, rt, ck, ix>>

(***************************************************************************)
(* app.main: the streamlit page.  Each button press runs the script once,  *)
(* synchronously.                                                          *)
(***************************************************************************)
\* "Search Lore" with a non-blank question
AppSearch(q) ==
  /\ ui = "app" /\ NoCall
  /\ Len(heap[history]) < MaxTurns
  /\ Enter(1, q, history)
  /\ cleared' = -1
  /\ UNCHANGED <<ui, running, history, heap, asked, fmt, rt, ck, ix>>

\* the call returns: `st.session_state.history = history`
AppReturn(c) ==
  /\ ui = "app"
  /\ calls[c].pc = "return"
  /\ history' = calls[c].history
  /\ calls' = [calls EXCEPT ![c] = IdleCall]
  /\ heap' = Collect(heap, {history'} \cup FrameRefs(calls'))
  /\ asked' = Append(asked, calls[c].question)
  /\ UNCHANGED <<ui, running, cleared, fmt, rt, ck, ix>>

\* the call raises: `except Exception as e: st.error(...)`
AppExcept(c) ==
  /\ ui = "app"
  /\ calls[c].pc = "raised"
  /\ calls' = [calls EXCEPT ![c] = IdleCall]
  /\ heap' = Collect(heap, {history} \cup FrameRefs(calls'))
  /\ UNCHANGED <<ui, running, history, asked, cleared, fmt, rt, ck, ix>>

\* "Clear conversation": `st.session_state.history = []`
AppClear ==
  /\ ui = "app" /\ NoCall
  /\ history' = NewList(FrameRefs(calls))
  /\ heap' = [i \in FrameRefs(calls) \cup {history'} |-> IF i = history' THEN <<>> ELSE heap[i]]
  /\ asked' = <<>>
  /\ cleared' = Len(heap[history])
  /\ UNCHANGED <<ui, running, calls, fmt, rt, ck, ix>>

(***************************************************************************)
(* The engine driven by a shell.                                           *)
(***************************************************************************)
Next ==
  \/ \E q \in Questions : CliAsk(q)
  \/ \E q \in Questions : AppSearch(q)
  \/ \E c \in CallIds : Embed(c)
  \/ \E c \in CallIds : EmbedFail(c)
  \/ \E c \in CallIds : \E m \in IndexResults : Query(c, m)
  \/ \E c \in CallIds : QueryFail(c)
  \/ \E c \in CallIds : EmptyResult(c)
  \/ \E c \in CallIds : FormatPrompt(c)
  \/ \E c \in CallIds : \E a \in LlmAnswers : Generate(c, a)
  \/ \E c \in CallIds : GenerateFail(c)
  \/ \E c \in CallIds : Record(c)
  \/ \E c \in CallIds : CliReturn(c)
  \/ \E c \in CallIds : CliExcept(c)
  \/ \E c \in CallIds : AppReturn(c)
  \/ \E c \in CallIds : AppExcept(c)
  \/ CliClear
  \/ CliExit
  \/ AppClear

Spec == Init /\ [][Next]_vars

(***************************************************************************)
(* The engine driven by a shell whose conversation is already under way:   *)
(* the history holds about as many turns as the prompt window, so that a   *)
(* question is asked on a history longer than the window.                  *)
(***************************************************************************)
\* histories of a session: some turns of one kind followed by turns of another
LateHistories ==
  {[i \in 1 .. n |-> IF i <= k THEN t ELSE u] :
     n \in (history_max_turns - 1) .. (MaxLateTurns - 1), k \in 0 .. 2, t \in Turns, u \in Turns}

InitLate ==
  /\ ui \in {"cli", "app"}
  /\ running = TRUE
  /\ history = 1
  /\ \E h \in LateHistories :
       /\ heap = (1 :> h)
       /\ asked = [i \in 1 .. Len(h) |-> h[i].user]
  /\ calls = [c \in CallIds |-> IdleCall]
  /\ cleared = -1
  /\ fmt = NoFmt
  /\ rt = NoRt
  /\ ck = NoCk
  /\ ix = NoIx

\* a question is typed
CliAskLate(q) ==
  /\ ui = "cli" /\ running /\ NoCall
  /\ Len(heap[history]) < MaxLateTurns
  /\ Enter(1, q, history)
  /\ cleared' = -1
  /\ UNCHANGED <<ui, running, history, heap, asked, fmt, rt, ck, ix>>

\* "Search Lore" with a non-blank question
AppSearchLate(q) ==
  /\ ui = "app" /\ NoCall
  /\ Len(heap[history]) < MaxLateTurns
  /\ Enter(1, q, history)
  /\ cleared' = -1
  /\ UNCHANGED <<ui, running, history, heap, asked, fmt, rt, ck, ix>>

NextLate ==
  \/ \E q \in Questions : CliAskLate(q)
  \/ \E q \in Questions : AppSearchLate(q)
  \/ \E c \in CallIds : Embed(c)
  \/ \E c \in CallIds : EmbedFail(c)
  \/ \E c \in CallIds : \E m \in IndexResults : Query(c, m)
  \/ \E c \in CallIds : QueryFail(c)
  \/ \E c \in CallIds : EmptyResult(c)
  \/ \E c \in CallIds : FormatPrompt(c)
  \/ \E c \in CallIds : \E a \in LlmAnswers : Generate(c, a)
  \/ \E c \in CallIds : GenerateFail(c)
  \/ \E c \in CallIds : Record(c)
  \/ \E c \in CallIds : CliReturn(c)
  \/ \E c \in CallIds : CliExcept(c)
  \/ \E c \in CallIds : AppReturn(c)
  \/ \E c \in CallIds : AppExcept(c)

SpecLate == InitLate /\ [][NextLate]_vars

(***************************************************************************)
(* The formatting functions applied on their own, to every input within    *)
(* the bounds.  self.history_max_turns is an attribute of the engine, so   *)
(* format_history is applied under every window from 0 up.                 *)
(***************************************************************************)
SeqsUpTo(S, n) == UNION {[1 .. k -> S] : k \in 0 .. n}

FmtHistories == {None} \cup {Some(h) : h \in SeqsUpTo(Turns, MaxFmtTurns)}
FmtWindows == 0 .. MaxFmtWindow
FmtChunkLists == {ChunksOf(m) : m \in SeqsUpTo({MatchX, MatchY}, MaxFmtChunks)}

InitFmt ==
  /\ ui = "cli"
  /\ running = TRUE
  /\ history = 1
  /\ heap = (1 :> <<>>)
  /\ calls = [c \in CallIds |-> IdleCall]
  /\ asked = <<>>
  /\ cleared = -1
  /\ rt = NoRt
  /\ ck = NoCk
  /\ ix = NoIx
  /\ \/ \E h \in FmtHistories, n \in FmtWindows :
          fmt = [NoFmt EXCEPT !.fn = "format_history", !.history = h, !.max_turns = n]
     \/ \E cs \in FmtChunkLists :
          fmt = [NoFmt EXCEPT !.fn = "format_context", !.chunks = cs]

ApplyFormatHistory ==
  /\ fmt.fn = "format_history"
  /\ ~fmt.done
  /\ fmt' = [fmt EXCEPT !.out = format_history(fmt.history, fmt.max_turns), !.done = TRUE]
  /\ UNCHANGED <<ui, running, history, heap, calls, asked, cleared, rt, ck, ix>>

ApplyFormatContext ==
  /\ fmt.fn = "format_context"
  /\ ~fmt.done
  /\ fmt' = [fmt EXCEPT !.out = format_context(fmt.chunks), !.done = TRUE]
  /\ UNCHANGED <<ui, running, history, heap, calls, asked, cleared, rt, ck, ix>>

NextFmt ==
  \/ ApplyFormatHistory
  \/ ApplyFormatContext

SpecFmt == InitFmt /\ [][NextFmt]_vars

(***************************************************************************)
(* Properties of the conversation state.                                   *)
(***************************************************************************)
\* C1: when answer_question returns, the list it returns holds the turns the
\* list held when the call was entered followed by exactly one more turn,
\* whose question is the question passed in and whose answer is the answer
\* the call returns (the generated text or the fallback text).
C1_OneTurnPerAsk ==
  \A c \in CallIds :
    calls[c].pc = "return" =>
      LET returned == heap[calls[c].history]
          prior == calls[c].h0
      IN /\ Len(returned) = Len(prior) + 1
         /\ SubSeq(returned, 1, Len(prior)) = prior
         /\ returned[Len(returned)].user = calls[c].question
         /\ returned[Len(returned)].assistant = calls[c].answer
         /\ calls[c].question \in Questions
         /\ calls[c].answer \in LlmAnswers \cup {FallbackAnswer}

\* a call with evidence returns on a history that already held turns
C1_Witness ==
  \E c \in CallIds :
    /\ calls[c].pc = "return"
    /\ calls[c].chunks # <<>>
    /\ Len(calls[c].h0) >= 2

\* C2: when the embedder or the index query raises, answer_question raises
\* without touching the history: the failing step changes no list, the list
\* passed in and the shell's list hold what they held when the call was
\* entered, the call never returns normally, and the shell's handler leaves
\* the shell's history as it was.
C2_RetrievalFailureKeepsHistory ==
  [][\A c \in CallIds :
       /\ (calls[c].pc \in {"embed", "query"} /\ calls'[c].pc = "raised") =>
             /\ calls'[c].exc \in {"embedder", "index"}
             /\ heap' = heap /\ history' = history
       /\ (calls[c].pc = "raised" /\ calls[c].exc \in {"embedder", "index"}) =>
             /\ heap[calls[c].history] = calls[c].h0
             /\ heap[history] = calls[c].h0
             /\ calls'[c].pc \in {"raised", "idle"}
             /\ history' = history
             /\ heap'[history'] = calls[c].h0
             /\ asked' = asked]_vars

\* the index query has raised in a call on a history that already held turns
C2_Witness ==
  \E c \in CallIds :
    /\ calls[c].pc = "raised"
    /\ calls[c].exc = "index"
    /\ Len(calls[c].h0) >= 2

\* C3: when chunks were retrieved and chain.invoke raises, answer_question
\* raises without touching the history; until chain.invoke has returned the
\* answer, the history holds what it held when the call was entered.
C3_GenerationFailureKeepsHistory ==
  [][\A c \in CallIds :
       /\ (calls[c].pc \in {"retrieved", "generate"} /\ calls[c].chunks # <<>>) =>
             /\ heap[calls[c].history] = calls[c].h0
             /\ heap[history] = calls[c].h0
       /\ (calls[c].pc = "generate" /\ calls'[c].pc = "raised") =>
             /\ calls'[c].exc = "llm"
             /\ heap' = heap /\ history' = history
       /\ (calls[c].pc = "raised" /\ calls[c].exc = "llm") =>
             /\ calls[c].chunks # <<>>
             /\ heap[calls[c].history] = calls[c].h0
             /\ heap[history] = calls[c].h0
             /\ calls'[c].pc \in {"raised", "idle"}
             /\ history' = history
             /\ heap'[history'] = calls[c].h0
             /\ asked' = asked]_vars

\* chain.invoke has raised in a call with evidence on a history that already held turns
C3_Witness ==
  \E c \in CallIds :
    /\ calls[c].pc = "raised"
    /\ calls[c].exc = "llm"
    /\ calls[c].chunks # <<>>
    /\ Len(calls[c].h0) >= 2

\* C4: when no chunk was retrieved the call goes from retrieval straight to
\* its return: the chain is never invoked, the answer returned is the fixed
\* fallback text, the chunk list returned is empty, and the history holds
\* one more turn, the question with the fallback text.
C4_EmptyEvidenceShortCircuit ==
  \A c \in CallIds :
    (calls[c].pc \in {"retrieved", "generate", "record", "return"} /\ calls[c].chunks = <<>>) =>
      /\ calls[c].pc \in {"retrieved", "return"}
      /\ calls[c].llm_calls = 0
      /\ calls[c].pc = "return" =>
           /\ calls[c].answer = FallbackAnswer
           /\ heap[calls[c].history] =
                Append(calls[c].h0, [user |-> calls[c].question, assistant |-> FallbackAnswer])

\* a call without evidence returns on a history that already held turns
C4_Witness ==
  \E c \in CallIds :
    /\ calls[c].pc = "return"
    /\ calls[c].chunks = <<>>
    /\ Len(calls[c].h0) >= 2

\* C5: the history only grows between clears: whatever step is taken other
\* than a clear, the shell's history before the step is a prefix of the
\* shell's history after it; and between calls the history holds as many
\* turns as questions were answered since the last clear, also beyond the
\* prompt window of history_max_turns turns.
C5_AppendOnly ==
  /\ [](NoCall => Len(heap[history]) = Len(asked))
  /\ [][~(cleared' >= 0 /\ cleared' # cleared) =>
          /\ Len(heap[history]) <= Len(heap'[history'])
          /\ SubSeq(heap'[history'], 1, Len(heap[history])) = heap[history]]_vars

\* more questions were answered than the prompt window holds
C5_Witness ==
  /\ NoCall
  /\ Len(asked) > history_max_turns
  /\ Len(heap[history]) > history_max_turns

\* C6: a clear leaves the shell with an empty history whatever the length of
\* the history it replaces, and creates no frame of answer_question; between
\* calls the turns of the history are the questions answered since the last
\* clear, in the order they were asked (two questions give two turns, a
\* clear after them gives none).
C6_ClearEmptiesHistory ==
  /\ [](NoCall => [i \in 1 .. Len(heap[history]) |-> heap[history][i].user] = asked)
  /\ [](cleared >= 0 => NoCall /\ heap[history] = <<>> /\ asked = <<>>)
  /\ [][(cleared' >= 0 /\ cleared' # cleared) =>
          /\ cleared' = Len(heap[history])
          /\ heap'[history'] = <<>>
          /\ calls' = calls]_vars

\* two different questions were answered and the history was then cleared
C6_Witness ==
  /\ cleared = 2
  /\ heap[history] = <<>>

(***************************************************************************)
(* Properties of the formatting functions.                                 *)
(***************************************************************************)
\* C7: for a non-empty history and a window of at least one turn (the window
\* of 0 turns is the case of C9), format_history renders the last max_turns
\* turns of the history, all of them when the history is shorter, oldest
\* first, each as "User: <question>\nAssistant: <answer>", with a blank line
\* between two turns.
C7_HistoryWindow ==
  (/\ fmt.done
   /\ fmt.fn = "format_history"
   /\ fmt.history # None
   /\ fmt.max_turns >= 1) =>
     (fmt.history[1] # <<>> =>
        LET h == fmt.history[1]
            k == IF Len(h) < fmt.max_turns THEN Len(h) ELSE fmt.max_turns
            RECURSIVE Rendered(_)
            Rendered(j) ==
              IF j = 0 THEN ""
              ELSE (IF j = 1 THEN "" ELSE Rendered(j - 1) \o "\n\n")
                   \o "User: " \o h[Len(h) - k + j].user
                   \o "\nAssistant: " \o h[Len(h) - k + j].assistant
        IN fmt.out = Rendered(k))

\* format_history was applied to a history longer than its window
C7_Witness ==
  /\ fmt.done
  /\ fmt.fn = "format_history"
  /\ fmt.history # None
  /\ fmt.max_turns = 2
  /\ Len(fmt.history[1]) = 3
  /\ fmt.history[1][1] # fmt.history[1][2]
  /\ fmt.history[1][2] # fmt.history[1][3]

\* C8: for a history that is None or empty, format_history returns the
\* sentinel "(no prior conversation)", which is not the empty string,
\* whatever the window.
C8_EmptyHistorySentinel ==
  (/\ fmt.done
   /\ fmt.fn = "format_history"
   /\ (fmt.history = None \/ fmt.history = Some(<<>>))) =>
     /\ fmt.out = "(no prior conversation)"
     /\ fmt.out # ""

\* format_history was applied to an empty list
C8_Witness ==
  /\ fmt.done
  /\ fmt.fn = "format_history"
  /\ fmt.history = Some(<<>>)
  /\ fmt.max_turns = MaxFmtWindow

\* C9: with a window of 0 turns format_history returns the sentinel whatever
\* the history.
C9_ZeroWindowSentinel ==
  (/\ fmt.done
   /\ fmt.fn = "format_history"
   /\ fmt.max_turns = 0) =>
     fmt.out = "(no prior conversation)"

\* C10, as the specification words it: the blocks are labelled "[Source i]".
C10_EvidenceBlocksCapitalised ==
  (fmt.done /\ fmt.fn = "format_context") =>
     LET cs == fmt.chunks
         RECURSIVE Blocks(_)
         Blocks(j) ==
           IF j = 0 THEN ""
           ELSE (IF j = 1 THEN "" ELSE Blocks(j - 1) \o "\n\n")
                \o "[Source " \o ToString(j) \o "] " \o cs[j].title \o "\n" \o cs[j].text
     IN /\ fmt.out = Blocks(Len(cs))
        /\ (Len(cs) = 1 /\ cs[1].title = "X" /\ cs[1].text = "X is a king.") =>
              fmt.out = "[Source 1] X\nX is a king."

\* C10, amended: format_context gives one block per chunk, in the order of
\* the chunks, numbered from 1, each of the form "[source i] <title>\n<text>"
\* with a lower-case label, with a blank line between two blocks; no chunk
\* gives the empty string, and the single chunk of title "X" and text
\* "X is a king." gives "[source 1] X\nX is a king.".
C10_EvidenceBlocks ==
  (fmt.done /\ fmt.fn = "format_context") =>
     LET cs == fmt.chunks
         RECURSIVE Blocks(_)
         Blocks(j) ==
           IF j = 0 THEN ""
           ELSE (IF j = 1 THEN "" ELSE Blocks(j - 1) \o "\n\n")
                \o "[source " \o ToString(j) \o "] " \o cs[j].title \o "\n" \o cs[j].text
     IN /\ fmt.out = Blocks(Len(cs))
        /\ cs = <<>> => fmt.out = ""
        /\ (Len(cs) = 1 /\ cs[1].title = "X" /\ cs[1].text = "X is a king.") =>
              fmt.out = "[source 1] X\nX is a king."

\* format_context was applied to several different chunks
C10_Witness ==
  /\ fmt.done
  /\ fmt.fn = "format_context"
  /\ Len(fmt.chunks) = 3
  /\ fmt.chunks[1] # fmt.chunks[2]

(***************************************************************************)
(* EldenRingRAG.retrieve_relevant_chunks called on its own, for every      *)
(* top_k and every content of the index within the bounds.  The index is   *)
(* the external service: for a query it answers with the top_k stored      *)
(* entries nearest to the query vector, ranked by score, or fails.         *)
(***************************************************************************)
MatchZ == [score |-> 50, metadata |-> [text |-> "Z is a knight.", title |-> "Z", url |-> "wiki/Z"]]
Corpora == SUBSET {MatchX, MatchY, MatchZ}
TopKs == 1 .. MaxTopK
default_top_k == 5

\* index.query(vector, top_k, include_metadata=True)["matches"]: the answers
\* the index may give, entries of equal score in either order
RankedResults(corpus, top_k) ==
  {m \in UNION {[1 .. n -> corpus] : n \in {Min(top_k, Cardinality(corpus))}} :
     /\ \A i, j \in 1 .. Len(m) : i < j => (m[i] # m[j] /\ m[i].score >= m[j].score)
     /\ \A e \in corpus :
          (\A i \in 1 .. Len(m) : m[i] # e) => \A i \in 1 .. Len(m) : m[i].score >= e.score}

InitRt ==
  /\ ui = "cli"
  /\ running = TRUE
  /\ history = 1
  /\ heap = (1 :> <<>>)
  /\ calls = [c \in CallIds |-> IdleCall]
  /\ asked = <<>>
  /\ cleared = -1
  /\ fmt = NoFmt
  /\ ck = NoCk
  /\ ix = NoIx
  /\ \E q \in Questions, k \in TopKs, corpus \in Corpora :
       rt = [pc |-> "embed", query |-> q, top_k |-> k, corpus |-> corpus,
             matches |-> <<>>, chunks |-> <<>>, exc |-> ""]

\* self.embedding_model.encode([query]) returns
RtEmbed ==
  /\ rt.pc = "embed"
  /\ rt' = [rt EXCEPT !.pc = "query"]
  /\ UNCHANGED <<ui, running, history, heap, calls, asked, cleared, fmt, ck, ix>>

\* self.embedding_model.encode([query]) raises
RtEmbedFail ==
  /\ rt.pc = "embed"
  /\ rt' = [rt EXCEPT !.pc = "raised", !.exc = "embedder"]
  /\ UNCHANGED <<ui, running, history, heap, calls, asked, cleared, fmt, ck, ix>>

\* RtQuery as it would be if the index were always asked for default_top_k entries
RtQuery_fixed(matches) ==
  /\ rt.pc = "query"
  /\ \E m \in RankedResults(rt.corpus, default_top_k) :
       rt' = [rt EXCEPT !.pc = "matched", !.matches = m]
  /\ UNCHANGED <<ui, running, history, heap, calls, asked, cleared, fmt, ck, ix>>

\* self.index.query(vector=..., top_k=top_k, include_metadata=True) returns
RtQuery(matches) ==
  /\ rt.pc = "query"
  /\ matches \in RankedResults(rt.corpus, rt.top_k)
  /\ rt' = [rt EXCEPT !.pc = "matched", !.matches = matches]
  /\ UNCHANGED <<ui, running, history, heap, calls, asked, cleared, fmt, ck, ix>>

\* self.index.query raises
RtQueryFail ==
  /\ rt.pc = "query"
  /\ rt' = [rt EXCEPT !.pc = "raised", !.exc = "index"]
  /\ UNCHANGED <<ui, running, history, heap, calls, asked, cleared, fmt, ck, ix>>

\* RtMap as it would be if the loop read the first match before iterating
RtMap_first ==
  /\ rt.pc = "matched"
  /\ rt' = IF rt.matches = <<>>
           THEN [rt EXCEPT !.pc = "raised", !.exc = "IndexError"]
           ELSE [rt EXCEPT !.pc = "returned", !.chunks = ChunksOf(rt.matches)]
  /\ UNCHANGED <<ui, running, history, heap, calls, asked, cleared, fmt, ck, ix>>

\* the loop over results["matches"], and `return chunks`
RtMap ==
  /\ rt.pc = "matched"
  /\ rt' = [rt EXCEPT !.pc = "returned", !.chunks = ChunksOf(rt.matches)]
  /\ UNCHANGED <<ui, running, history, heap, calls, asked, cleared, fmt, ck, ix>>

NextRt ==
  \/ RtEmbed
  \/ RtEmbedFail
  \/ \E m \in SeqsUpTo({MatchX, MatchY, MatchZ}, MaxTopK) : RtQuery(m)
  \/ RtQueryFail
  \/ RtMap

SpecRt == InitRt /\ [][NextRt]_vars

(***************************************************************************)
(* Properties of the retriever.                                            *)
(***************************************************************************)
\* C11: the chunks retrieve_relevant_chunks returns are at most top_k many
\* and their scores never increase along the sequence.
C11_AtMostTopKRanked ==
  rt.pc = "returned" =>
    /\ Len(rt.chunks) <= rt.top_k
    /\ \A i, j \in 1 .. Len(rt.chunks) : i < j => rt.chunks[i].score >= rt.chunks[j].score

\* the index holds more entries than asked for and several chunks are returned
C11_Witness ==
  /\ rt.pc = "returned"
  /\ Cardinality(rt.corpus) > rt.top_k
  /\ Len(rt.chunks) = 2
  /\ rt.chunks[1].score > rt.chunks[2].score

\* C12: when the index answers with no match, as it does on an empty corpus,
\* retrieve_relevant_chunks returns the empty list: its next step is the
\* normal return, never an exception.
C12_NoMatchIsEmptyResult ==
  [][(rt.pc = "matched" /\ rt.matches = <<>>) =>
        (rt'.pc = "returned" /\ rt'.chunks = <<>> /\ rt'.exc = "")]_vars
  /\ [](rt.pc \in {"matched", "returned"} /\ rt.corpus = {} => rt.matches = <<>> /\ rt.exc = "")

\* the retriever has returned from a query on an empty corpus
C12_Witness ==
  /\ rt.pc = "returned"
  /\ rt.corpus = {}
  /\ rt.chunks = <<>>

\* C18: the chunks returned are the matches of the index one to one: as many,
\* in the same order, chunk i carrying the score of match i and the text,
\* title and url of its metadata, and nothing else.
C18_OneChunkPerMatch ==
  rt.pc = "returned" =>
    /\ Len(rt.chunks) = Len(rt.matches)
    /\ \A i \in 1 .. Len(rt.matches) :
         /\ DOMAIN rt.chunks[i] = {"text", "score", "title", "url"}
         /\ rt.chunks[i].score = rt.matches[i].score
         /\ rt.chunks[i].text = rt.matches[i].metadata.text
         /\ rt.chunks[i].title = rt.matches[i].metadata.title
         /\ rt.chunks[i].url = rt.matches[i].metadata.url

\* three matches, two of them of the same score, were mapped
C18_Witness ==
  /\ rt.pc = "returned"
  /\ Len(rt.matches) = 3
  /\ rt.matches[2].score = rt.matches[3].score
  /\ rt.chunks[2] # rt.chunks[3]

(***************************************************************************)
(* Properties of one call of answer_question.                              *)
(***************************************************************************)
\* C13: the frame of a call only moves forward through its stages: the
\* embedder, then the index, then (with chunks) the formatting and the chain,
\* then the append, then the return, or (without chunks) from the index
\* straight to the append and return; the embedder and the index are called
\* once, the chain once with chunks and never without, no stage is entered
\* twice, and a list changes only in the step that ends in the return, with
\* the answer of the call as the answer of the appended turn.
C13_StagesInOrder ==
  /\ [][\A c \in CallIds :
          /\ calls'[c].pc # calls[c].pc =>
               \/ calls[c].pc = "idle" /\ calls'[c].pc = "embed"
               \/ calls[c].pc = "embed" /\ calls'[c].pc \in {"query", "raised"}
               \/ calls[c].pc = "query" /\ calls'[c].pc \in {"retrieved", "raised"}
               \/ calls[c].pc = "retrieved" /\ calls[c].chunks = <<>> /\ calls'[c].pc = "return"
               \/ calls[c].pc = "retrieved" /\ calls[c].chunks # <<>> /\ calls'[c].pc = "generate"
               \/ calls[c].pc = "generate" /\ calls'[c].pc \in {"record", "raised"}
               \/ calls[c].pc = "record" /\ calls'[c].pc = "return"
               \/ calls[c].pc \in {"return", "raised"} /\ calls'[c].pc = "idle"
          /\ (Active(c) /\ calls[c].history # NoneRef /\ calls[c].history \in DOMAIN heap'
              /\ heap'[calls[c].history] # heap[calls[c].history]) =>
               /\ calls'[c].pc = "return"
               /\ calls[c].pc = "record" => calls[c].answer = calls'[c].answer
               /\ calls'[c].answer # ""
               /\ heap'[calls[c].history] =
                    Append(heap[calls[c].history],
                           [user |-> calls[c].question, assistant |-> calls'[c].answer])]_vars
  /\ [](\A c \in CallIds :
          LET f == calls[c]
              n == <<f.embed_calls, f.query_calls, f.llm_calls>>
          IN /\ f.pc \in {"idle", "embed"} => n = <<0, 0, 0>>
             /\ f.pc = "query" => n = <<1, 0, 0>>
             /\ f.pc \in {"retrieved", "generate"} => n = <<1, 1, 0>>
             /\ f.pc = "record" => n = <<1, 1, 1>> /\ f.chunks # <<>>
             /\ f.pc = "return" => n = <<1, 1, IF f.chunks = <<>> THEN 0 ELSE 1>>
             /\ f.pc = "raised" =>
                  n = (IF f.exc = "embedder" THEN <<1, 0, 0>>
                       ELSE IF f.exc = "index" THEN <<1, 1, 0>> ELSE <<1, 1, 1>>))

\* a call with chunks has gone through every stage and returns
C13_Witness ==
  \E c \in CallIds :
    /\ calls[c].pc = "return"
    /\ Len(calls[c].chunks) = 2
    /\ calls[c].llm_calls = 1
    /\ calls[c].h0 # <<>>

\* C14: a collaborator that fails leaves the call raising that very failure:
\* the frame holds an exception exactly when it is raising, the exception is
\* not replaced on the way, the only step that follows is the handler of the
\* shell, which records no answered question, and a call that returns (the
\* fallback answer included) has seen no collaborator fail.
C14_FailureSurfaces ==
  /\ [](\A c \in CallIds :
          /\ calls[c].exc # "" <=> calls[c].pc = "raised"
          /\ calls[c].pc = "raised" => calls[c].exc \in {"embedder", "index", "llm"}
          /\ calls[c].pc = "raised" => calls[c].answer = ""
          /\ calls[c].pc = "return" => (calls[c].exc = "" /\ calls[c].answer # ""))
  /\ [][\A c \in CallIds :
          calls[c].pc = "raised" =>
            \/ calls'[c] = calls[c]
            \/ /\ calls'[c] = IdleCall
               /\ asked' = asked
               /\ history' = history
               /\ heap'[history'] = heap[history]]_vars

\* the embedder has failed in a call of a conversation with answered questions
C14_Witness ==
  \E c \in CallIds :
    /\ calls[c].pc = "raised"
    /\ calls[c].exc = "embedder"
    /\ Len(asked) >= 1

\* C20: the history block of the prompt is the rendering of the turns the
\* history held when the call was entered: the sentinel when it held none,
\* else its last history_max_turns turns (all when it held fewer), oldest
\* first; the turn of the call itself is not in it, also once it is appended.
C20_PromptHistoryIsPrior ==
  \A c \in CallIds :
    (\/ calls[c].pc \in {"generate", "record"}
     \/ calls[c].pc = "return" /\ calls[c].chunks # <<>>
     \/ calls[c].pc = "raised" /\ calls[c].exc = "llm") =>
      LET h == calls[c].h0
          k == IF Len(h) < history_max_turns THEN Len(h) ELSE history_max_turns
          RECURSIVE Block(_)
          Block(j) ==
            IF j = 0 THEN ""
            ELSE (IF j = 1 THEN "" ELSE Block(j - 1) \o "\n\n")
                 \o "User: " \o h[Len(h) - k + j].user
                 \o "\nAssistant: " \o h[Len(h) - k + j].assistant
      IN /\ k <= history_max_turns
         /\ calls[c].history_str = (IF h = <<>> THEN "(no prior conversation)" ELSE Block(k))

\* the prompt of a call is built on a history longer than the window, whose
\* oldest turn differs from the next
C20_Witness ==
  \E c \in CallIds :
    /\ calls[c].pc = "generate"
    /\ Len(calls[c].h0) = history_max_turns + 1
    /\ calls[c].h0[1] # calls[c].h0[2]

(***************************************************************************)
(* The chunker.  split_into_chunks hands every document to                 *)
(* RecursiveCharacterTextSplitter.split_text, configured with chunk_size,  *)
(* chunk_overlap and the separators "\n\n", "\n", ". ", " ", "".  The      *)
(* splitter is not part of the sources; it is modelled from section 4.1 of *)
(* the specification: split on the coarsest separator, split again with    *)
(* the finer separators any piece longer than chunk_size, pack consecutive *)
(* pieces greedily into windows with the separator put back between them,  *)
(* and start each next window with the trailing pieces of the window just  *)
(* emitted, as many as amount to at most chunk_overlap characters and      *)
(* leave room for the next piece.  Texts are sequences of characters.      *)
(***************************************************************************)
Chars == {"a", "b", " ", ".", "\n"}
Separators == << <<"\n", "\n">>, <<"\n">>, <<".", " ">>, <<" ">>, <<>> >>
ChunkSizes == 2 .. MaxChunkSize

\* the pieces of text between the occurrences of sep; the characters of text
\* when sep is the empty string
RECURSIVE SplitOn(_, _)
SplitOn(text, sep) ==
  IF sep = <<>> THEN [i \in 1 .. Len(text) |-> <<text[i]>>]
  ELSE LET n == Len(text)
           m == Len(sep)
           occ == {i \in 1 .. (n - m + 1) : SubSeq(text, i, i + m - 1) = sep}
       IN IF occ = {} THEN <<text>>
          ELSE LET i == CHOOSE x \in occ : \A y \in occ : x <= y
               IN <<SubSeq(text, 1, i - 1)>> \o SplitOn(SubSeq(text, i + m, n), sep)

\* the atoms joined with the separator put back between them
RECURSIVE JoinAtoms(_, _)
JoinAtoms(atoms, sep) ==
  IF atoms = <<>> THEN <<>>
  ELSE IF Len(atoms) = 1 THEN atoms[1]
  ELSE atoms[1] \o sep \o JoinAtoms(Tail(atoms), sep)

\* Carry as it would be if the trailing atoms were kept whether or not the next atom fits
RECURSIVE Carry_unfitted(_, _, _, _, _)
Carry_unfitted(cur, a, sep, size, overlap) ==
  IF cur = <<>> THEN <<>>
  ELSE IF Len(JoinAtoms(cur, sep)) > overlap
       THEN Carry_unfitted(Tail(cur), a, sep, size, overlap)
       ELSE cur

\* Carry as it would be if no atom were taken over into the next window
Carry_none(cur, a, sep, size, overlap) == <<>>

\* the walk back from the end of the window cur: its trailing atoms that
\* amount to at most overlap characters and to which the atom a can be added
RECURSIVE Carry(_, _, _, _, _)
Carry(cur, a, sep, size, overlap) ==
  IF cur = <<>> THEN <<>>
  ELSE IF \/ Len(JoinAtoms(cur, sep)) > overlap
          \/ Len(JoinAtoms(Append(cur, a), sep)) > size
       THEN Carry(Tail(cur), a, sep, size, overlap)
       ELSE cur

\* the greedy packing of atoms into windows; cur is the window being filled
\* and carried the number of its atoms taken over from the window before it
\* (-1 for a window that starts a packing)
RECURSIVE Pack(_, _, _, _, _, _)
Pack(atoms, cur, carried, sep, size, overlap) ==
  IF atoms = <<>>
  THEN IF cur = <<>> THEN <<>> ELSE <<[atoms |-> cur, sep |-> sep, carried |-> carried]>>
  ELSE LET a == Head(atoms)
       IN IF cur # <<>> /\ Len(JoinAtoms(Append(cur, a), sep)) > size
          THEN LET kept == Carry(cur, a, sep, size, overlap)
               IN <<[atoms |-> cur, sep |-> sep, carried |-> carried]>>
                  \o Pack(Tail(atoms), Append(kept, a), Len(kept), sep, size, overlap)
          ELSE Pack(Tail(atoms), Append(cur, a), carried, sep, size, overlap)

\* the windows of text: the pieces that fit are packed, a piece that does not
\* is split with the finer separators (kept whole when none is left)
RECURSIVE Windows(_, _, _, _)
RECURSIVE Walk(_, _, _, _, _)
Walk(pieces, good, seps, size, overlap) ==
  IF pieces = <<>> THEN Pack(good, <<>>, -1, Head(seps), size, overlap)
  ELSE IF Len(Head(pieces)) <= size
       THEN Walk(Tail(pieces), Append(good, Head(pieces)), seps, size, overlap)
       ELSE Pack(good, <<>>, -1, Head(seps), size, overlap)
            \o (IF Len(seps) = 1
                THEN <<[atoms |-> <<Head(pieces)>>, sep |-> Head(seps), carried |-> -1]>>
                ELSE Windows(Head(pieces), Tail(seps), size, overlap))
            \o Walk(Tail(pieces), <<>>, seps, size, overlap)

Windows(text, seps, size, overlap) ==
  Walk(SelectSeq(SplitOn(text, Head(seps)), LAMBDA piece : piece # <<>>), <<>>, seps, size, overlap)

\* self.text_splitter.split_text(text)
split_text(text, size, overlap) ==
  LET ws == Windows(text, Separators, size, overlap)
  IN [i \in 1 .. Len(ws) |-> JoinAtoms(ws[i].atoms, ws[i].sep)]

(***************************************************************************)
(* EldenRingDataLoader.create_documents and split_into_chunks.             *)
(***************************************************************************)
Texts == SeqsUpTo(Chars, MaxDocLen)
SampleTexts == {<<>>, <<"a", "b">>, <<"a", "b", " ", "b", "a">>, <<"a", " ", "b", " ", "a">>}

\* create_documents: one document per page, in the order of the pages
Documents(contents) ==
  [i \in 1 .. Len(contents) |->
     [page_content |-> contents[i],
      metadata |-> [url |-> "wiki/" \o ToString(i), title |-> "page " \o ToString(i),
                    source |-> "elden_ring_wiki"]]]

InitCk ==
  /\ ui = "cli"
  /\ running = TRUE
  /\ history = 1
  /\ heap = (1 :> <<>>)
  /\ calls = [c \in CallIds |-> IdleCall]
  /\ asked = <<>>
  /\ cleared = -1
  /\ fmt = NoFmt
  /\ rt = NoRt
  /\ ix = NoIx
  /\ \E size \in ChunkSizes, overlap \in 0 .. (MaxChunkSize - 1),
        contents \in {<<t>> : t \in Texts} \cup UNION {[1 .. n -> SampleTexts] : n \in 0 .. MaxDocs} :
       /\ overlap < size
       /\ ck = [pc |-> "split", chunk_size |-> size, chunk_overlap |-> overlap,
                documents |-> Documents(contents), done |-> 0,
                all_chunks |-> <<>>, chunk_id |-> 0, windows |-> <<>>]

\* SplitDocument as it would be if total_chunks were the number of chunks made so far
SplitDocument_running ==
  /\ ck.pc = "split"
  /\ ck.done < Len(ck.documents)
  /\ LET doc == ck.documents[ck.done + 1]
         chunks == split_text(doc.page_content, ck.chunk_size, ck.chunk_overlap)
         records == [i \in 1 .. Len(chunks) |->
                       [id |-> "chunk_" \o ToString(ck.chunk_id + i - 1),
                        text |-> chunks[i],
                        metadata |-> [url |-> doc.metadata.url, title |-> doc.metadata.title,
                                      source |-> doc.metadata.source,
                                      chunk_index |-> i - 1, total_chunks |-> i]]]
     IN ck' = [ck EXCEPT !.done = ck.done + 1,
                         !.all_chunks = ck.all_chunks \o records,
                         !.chunk_id = ck.chunk_id + Len(chunks),
                         !.windows = ck.windows
                            \o Windows(doc.page_content, Separators, ck.chunk_size, ck.chunk_overlap)]
  /\ UNCHANGED <<ui, running, history, heap, calls, asked, cleared, fmt, rt, ix>>

\* one turn of `for doc in documents:`: the document is split and one record
\* per chunk is appended.  windows is a history variable: the atoms of every
\* chunk made.
SplitDocument ==
  /\ ck.pc = "split"
  /\ ck.done < Len(ck.documents)
  /\ LET doc == ck.documents[ck.done + 1]
         chunks == split_text(doc.page_content, ck.chunk_size, ck.chunk_overlap)
         records == [i \in 1 .. Len(chunks) |->
                       [id |-> "chunk_" \o ToString(ck.chunk_id + i - 1),
                        text |-> chunks[i],
                        metadata |-> [url |-> doc.metadata.url, title |-> doc.metadata.title,
                                      source |-> doc.metadata.source,
                                      chunk_index |-> i - 1, total_chunks |-> Len(chunks)]]]
     IN ck' = [ck EXCEPT !.done = ck.done + 1,
                         !.all_chunks = ck.all_chunks \o records,
                         !.chunk_id = ck.chunk_id + Len(chunks),
                         !.windows = ck.windows
                            \o Windows(doc.page_content, Separators, ck.chunk_size, ck.chunk_overlap)]
  /\ UNCHANGED <<ui, running, history, heap, calls, asked, cleared, fmt, rt, ix>>

\* the loop is over: `return all_chunks`
SplitReturn ==
  /\ ck.pc = "split"
  /\ ck.done = Len(ck.documents)
  /\ ck' = [ck EXCEPT !.pc = "returned"]
  /\ UNCHANGED <<ui, running, history, heap, calls, asked, cleared, fmt, rt, ix>>

NextCk ==
  \/ SplitDocument
  \/ SplitReturn

SpecCk == InitCk /\ [][NextCk]_vars

(***************************************************************************)
(* Claims about the chunker and the chunk records.                         *)
(***************************************************************************)
\* the number of the document a chunk record was made from
DocOf(record) ==
  CHOOSE j \in 1 .. Len(ck.documents) : ck.documents[j].metadata.url = record.metadata.url

\* the last n elements of a sequence
LastN(s, n) == SubSeq(s, Len(s) - n + 1, Len(s))

\* C15: every chunk the chunker emits is at most chunk_size characters long
\* (and not empty).  With the empty string as the last separator no piece
\* is left that cannot be split, so the exception of the claim has no case.
C15_ChunkFitsSize ==
  ck.pc # "off" =>
    \A i \in 1 .. Len(ck.all_chunks) :
      /\ Len(ck.all_chunks[i].text) >= 1
      /\ Len(ck.all_chunks[i].text) <= ck.chunk_size

\* a document longer than chunk_size was split with an overlap asked for,
\* and one of its chunks is exactly chunk_size long
C15_Witness ==
  /\ ck.pc = "returned"
  /\ ck.chunk_overlap > 0
  /\ Len(ck.documents) = 1
  /\ Len(ck.documents[1].page_content) > ck.chunk_size
  /\ Len(ck.all_chunks) >= 2
  /\ \E i \in 1 .. Len(ck.all_chunks) : Len(ck.all_chunks[i].text) = ck.chunk_size

C17_ChunkRecords ==
  ck.pc # "off" =>
    LET records == ck.all_chunks
    IN /\ \A j \in 1 .. Len(ck.documents) :
            LET of_doc == SelectSeq(records, LAMBDA r : r.metadata.url = ck.documents[j].metadata.url)
            IN \A i \in 1 .. Len(of_doc) :
                 /\ of_doc[i].metadata.chunk_index = i - 1
                 /\ of_doc[i].metadata.total_chunks = Len(of_doc)
                 /\ of_doc[i].metadata.title = ck.documents[j].metadata.title
       /\ \A i, k \in 1 .. Len(records) : i # k => records[i].id # records[k].id
       /\ \A i, k \in 1 .. Len(records) :
            i < k => /\ DocOf(records[i]) <= DocOf(records[k])
                     /\ DocOf(records[k]) <= ck.done

\* a finished run over two documents of two or more chunks each
C17_Witness ==
  /\ ck.pc = "returned"
  /\ Len(ck.documents) = 2
  /\ \E i, k \in 1 .. Len(ck.all_chunks) :
       /\ ck.all_chunks[i].metadata.url = ck.documents[1].metadata.url
       /\ ck.all_chunks[k].metadata.url = ck.documents[2].metadata.url
       /\ ck.all_chunks[i].metadata.total_chunks >= 2
       /\ ck.all_chunks[k].metadata.total_chunks >= 2

(***************************************************************************)
(* EldenRingIndexer.prepare_vectors_for_pinecone and                       *)
(* generate_embeddings_batch.  The embedder is a collaborator: encode      *)
(* returns one vector per text it is given, in the order given, or raises. *)
(* A vector is modelled by the text it embeds.                             *)
(***************************************************************************)
default_batch_size == 32
BatchSizes == (1 .. MaxBatch) \cup {default_batch_size}

ChunkRecord(n, text, index, total) ==
  [id |-> "chunk_" \o ToString(n), text |-> text,
   metadata |-> [url |-> "wiki/" \o ToString(n), title |-> "page " \o ToString(n),
                 source |-> "elden_ring_wiki", chunk_index |-> index, total_chunks |-> total]]

\* the chunk records load_chunks can return
ChunkRecords ==
  {ChunkRecord(0, "X is a king.", 0, 2), ChunkRecord(1, "Y is a queen.", 1, 2),
   ChunkRecord(2, "X is a king.", 0, 1)}

\* self.model.encode on one text
Embedding(text) == <<"embedding", text>>

\* self.model.encode(batch_texts)
encode(batch_texts) == [k \in 1 .. Len(batch_texts) |-> Embedding(batch_texts[k])]

\* s[i : j] for 0 <= i <= j
PySlice(s, i, j) == SubSeq(s, i + 1, Min(j, Len(s)))

\* prepare_vectors_for_pinecone is entered: texts is built and
\* generate_embeddings_batch starts with no embeddings
InitIx ==
  /\ ui = "cli"
  /\ running = TRUE
  /\ history = 1
  /\ heap = (1 :> <<>>)
  /\ calls = [c \in CallIds |-> IdleCall]
  /\ asked = <<>>
  /\ cleared = -1
  /\ fmt = NoFmt
  /\ rt = NoRt
  /\ ck = NoCk
  /\ \E chunks \in SeqsUpTo(ChunkRecords, MaxChunks), batch_size \in BatchSizes :
       ix = [pc |-> "encode", chunks |-> chunks, batch_size |-> batch_size,
             texts |-> [k \in 1 .. Len(chunks) |-> chunks[k].text],
             i |-> 0, embeddings |-> <<>>, encoded |-> <<>>, vectors |-> <<>>]

\* EncodeBatch as it would be if the batch left out the last text of its slice
EncodeBatch_short ==
  /\ ix.pc = "encode"
  /\ ix.i < Len(ix.texts)
  /\ LET batch_texts == PySlice(ix.texts, ix.i, ix.i + ix.batch_size - 1)
     IN ix' = [ix EXCEPT !.embeddings = ix.embeddings \o encode(batch_texts),
                         !.encoded = ix.encoded \o [k \in 1 .. Len(batch_texts) |-> ix.i + k],
                         !.i = ix.i + ix.batch_size]
  /\ UNCHANGED <<ui, running, history, heap, calls, asked, cleared, fmt, rt, ck>>

\* one turn of `for i in range(0, len(texts), batch_size)`: the next slice of
\* texts is encoded and its embeddings are added.  encoded is a history
\* variable: the positions of the texts given to the embedder, in order.
EncodeBatch ==
  /\ ix.pc = "encode"
  /\ ix.i < Len(ix.texts)
  /\ LET batch_texts == PySlice(ix.texts, ix.i, ix.i + ix.batch_size)
     IN ix' = [ix EXCEPT !.embeddings = ix.embeddings \o encode(batch_texts),
                         !.encoded = ix.encoded \o [k \in 1 .. Len(batch_texts) |-> ix.i + k],
                         !.i = ix.i + ix.batch_size]
  /\ UNCHANGED <<ui, running, history, heap, calls, asked, cleared, fmt, rt, ck>>

\* self.model.encode raises: nothing catches it in prepare_vectors_for_pinecone
EncodeFail ==
  /\ ix.pc = "encode"
  /\ ix.i < Len(ix.texts)
  /\ ix' = [ix EXCEPT !.pc = "raised"]
  /\ UNCHANGED <<ui, running, history, heap, calls, asked, cleared, fmt, rt, ck>>

\* the loop is over: the vectors are built from zip(chunks, embeddings) and returned
PrepareVectors ==
  /\ ix.pc = "encode"
  /\ ix.i >= Len(ix.texts)
  /\ ix' = [ix EXCEPT
       !.pc = "returned",
       !.vectors = [k \in 1 .. Min(Len(ix.chunks), Len(ix.embeddings)) |->
                      [id |-> ix.chunks[k].id,
                       values |-> ix.embeddings[k],
                       metadata |-> [text |-> ix.chunks[k].text,
                                     url |-> ix.chunks[k].metadata.url,
                                     title |-> ix.chunks[k].metadata.title,
                                     chunk_index |-> ix.chunks[k].metadata.chunk_index,
                                     total_chunks |-> ix.chunks[k].metadata.total_chunks,
                                     source |-> ix.chunks[k].metadata.source]]]]
  /\ UNCHANGED <<ui, running, history, heap, calls, asked, cleared, fmt, rt, ck>>

NextIx ==
  \/ EncodeBatch
  \/ EncodeFail
  \/ PrepareVectors

SpecIx == InitIx /\ [][NextIx]_vars

\* C19: the preparation returns one vector per chunk record, in the order of
\* the records, whatever the batch size: vector k has the id of record k, the
\* embedding of its text, and its text, url, title, chunk_index and
\* total_chunks as metadata; every text was given to the embedder once, in
\* order.
C19_OneVectorPerChunk ==
  /\ ix.pc = "encode" =>
       ix.encoded = [k \in 1 .. Min(ix.i, Len(ix.texts)) |-> k]
  /\ ix.pc = "returned" =>
       /\ ix.encoded = [k \in 1 .. Len(ix.chunks) |-> k]
       /\ Len(ix.vectors) = Len(ix.chunks)
       /\ \A k \in 1 .. Len(ix.chunks) :
            /\ ix.vectors[k].id = ix.chunks[k].id
            /\ ix.vectors[k].values = Embedding(ix.chunks[k].text)
            /\ ix.vectors[k].metadata.text = ix.chunks[k].text
            /\ ix.vectors[k].metadata.url = ix.chunks[k].metadata.url
            /\ ix.vectors[k].metadata.title = ix.chunks[k].metadata.title
            /\ ix.vectors[k].metadata.chunk_index = ix.chunks[k].metadata.chunk_index
            /\ ix.vectors[k].metadata.total_chunks = ix.chunks[k].metadata.total_chunks

\* a preparation of three or more differing records returned, embedded in
\* batches of two, the last batch not full
C19_Witness ==
  /\ ix.pc = "returned"
  /\ ix.batch_size = 2
  /\ Len(ix.chunks) >= 3
  /\ Len(ix.chunks) % 2 = 1
  /\ ix.chunks[1] # ix.chunks[2]
  /\ Len(ix.vectors) = Len(ix.chunks)

(***************************************************************************)
(* answer_question called directly.  The caller owns one list and starts   *)
(* calls with that list or with no history at all; nothing in the engine   *)
(* serialises calls, so a call may be started while others are in flight   *)
(* (threads sharing the engine).  Under the interpreter lock each step of  *)
(* the model, list.append included, is atomic.  The frames of the calls    *)
(* that are over are kept, with what they returned or raised.              *)
(***************************************************************************)
Priors == SeqsUpTo({Turn("Who is Y?", FallbackAnswer)}, MaxPrior)

InitApi ==
  /\ ui = "api"
  /\ running = TRUE
  /\ history = 1
  /\ \E h \in Priors : heap = (1 :> h)
  /\ calls = [c \in CallIds |-> IdleCall]
  /\ asked = <<>>
  /\ cleared = -1
  /\ fmt = NoFmt
  /\ rt = NoRt
  /\ ck = NoCk
  /\ ix = NoIx

\* answer_question(q, history=h) is called, h the caller's list or None
\* (the default of the parameter)
ApiCall(c, q, h) ==
  /\ ui = "api"
  /\ h \in {history, NoneRef}
  /\ \A d \in CallIds : d < c => Active(d)
  /\ Enter(c, q, h)
  /\ UNCHANGED <<ui, running, history, heap, asked, cleared, fmt, rt, ck, ix>>

NextApi ==
  \/ \E c \in CallIds : \E q \in Questions : \E h \in {history, NoneRef} : ApiCall(c, q, h)
  \/ \E c \in CallIds : Embed(c)
  \/ \E c \in CallIds : EmbedFail(c)
  \/ \E c \in CallIds : \E m \in IndexResults : Query(c, m)
  \/ \E c \in CallIds : QueryFail(c)
  \/ \E c \in CallIds : EmptyResult(c)
  \/ \E c \in CallIds : FormatPrompt(c)
  \/ \E c \in CallIds : \E a \in LlmAnswers : Generate(c, a)
  \/ \E c \in CallIds : GenerateFail(c)
  \/ \E c \in CallIds : Record(c)

SpecApi == InitApi /\ [][NextApi]_vars

(***************************************************************************)
(* Claims about the history list as an object.                             *)
(***************************************************************************)
\* the step in which call c appends its turn and returns
Records(c) == calls[c].pc # "return" /\ calls'[c].pc = "return"

\* the turn a call that has an answer records
TurnOf(frame) == Turn(frame.question, frame.answer)

\* C21: a call that was given a list appends its turn to that very list and
\* returns it, an empty list included; a call that was given no history
\* makes a new list, which holds the one new turn and nothing else; in both
\* cases no other list changes.
C21_InPlaceOrFresh ==
  [][\A c \in CallIds :
       Records(c) =>
         LET given == calls[c].history
             returned == calls'[c].history
         IN IF given # NoneRef
            THEN /\ returned = given
                 /\ DOMAIN heap' = DOMAIN heap
                 /\ heap'[given] = Append(heap[given], TurnOf(calls'[c]))
                 /\ \A i \in DOMAIN heap \ {given} : heap'[i] = heap[i]
            ELSE /\ returned \notin DOMAIN heap
                 /\ DOMAIN heap' = DOMAIN heap \cup {returned}
                 /\ heap'[returned] = <<TurnOf(calls'[c])>>
                 /\ \A i \in DOMAIN heap : heap'[i] = heap[i]]_vars

\* one call was given the caller's list while it was empty and returned that
\* list, now holding its turn; another was given no history and returned a
\* list of its own
C21_Witness ==
  \E c, d \in CallIds :
    /\ calls[c].pc = "return" /\ calls[d].pc = "return"
    /\ calls[c].history = history
    /\ calls[c].h0 = <<>>
    /\ heap[history] = <<TurnOf(calls[c])>>
    /\ calls[d].history # history
    /\ heap[calls[d].history] = <<TurnOf(calls[d])>>

\* the calls on list h, those among them that have returned, and the
\* contents of h before the first of them
CallsOn(h) == {c \in CallIds : Active(c) /\ calls[c].history = h}
ReturnedOn(h) == {c \in CallIds : calls[c].pc = "return" /\ calls[c].history = h}
PriorOf(h) ==
  LET c == CHOOSE c \in CallsOn(h) : \A d \in CallsOn(h) : Len(calls[c].h0) <= Len(calls[d].h0)
  IN calls[c].h0

\* C22: when calls on one list are interleaved, no turn is lost: the list is
\* what it was before the calls followed by one turn per call that has
\* recorded, each turn whole; and a call's turn is put at the end of the list
\* as it is when the call records, so the turns stand in the order in which
\* the calls recorded.
C22_NoTurnLost ==
  /\ [](\A h \in DOMAIN heap :
          CallsOn(h) # {} =>
            LET prior == PriorOf(h)
                n == Len(prior)
                added == n + 1 .. Len(heap[h])
            IN /\ Len(heap[h]) = n + Cardinality(ReturnedOn(h))
               /\ SubSeq(heap[h], 1, n) = prior
               /\ \A t \in Turns :
                    Cardinality({i \in added : heap[h][i] = t})
                      = Cardinality({c \in ReturnedOn(h) : TurnOf(calls[c]) = t}))
  /\ [][/\ \A c \in CallIds :
             (Records(c) /\ calls[c].history # NoneRef) =>
               heap'[calls[c].history] = Append(heap[calls[c].history], TurnOf(calls'[c]))
        /\ (\A c \in CallIds : ~Records(c)) => heap' = heap]_vars

\* two calls on the caller's list were both entered before either recorded
\* and both returned; the call entered second recorded first
C22_Witness ==
  /\ calls[1].pc = "return" /\ calls[2].pc = "return"
  /\ calls[1].history = history /\ calls[2].history = history
  /\ calls[1].h0 = calls[2].h0
  /\ TurnOf(calls[1]) # TurnOf(calls[2])
  /\ heap[history] = calls[1].h0 \o <<TurnOf(calls[2]), TurnOf(calls[1])>>

(***************************************************************************)
(* EldenRingIndexer.upload_to_pinecone, followed by the describe call of   *)
(* index_all_chunks.  The index is a collaborator: upsert stores the batch *)
(* it is given or raises and stores nothing.  The index starts empty.      *)
(***************************************************************************)
default_upload_batch_size == 100
UploadBatchSizes == (1 .. MaxBatch) \cup {default_upload_batch_size}

\* the vectors prepare_vectors_for_pinecone returns for n chunks
Vectors(n) ==
  [k \in 1 .. n |->
     LET chunk == ChunkRecord(k - 1, "X is a king.", 0, 1)
     IN [id |-> chunk.id, values |-> Embedding(chunk.text),
         metadata |-> [text |-> chunk.text, url |-> chunk.metadata.url,
                       title |-> chunk.metadata.title,
                       chunk_index |-> chunk.metadata.chunk_index,
                       total_chunks |-> chunk.metadata.total_chunks,
                       source |-> chunk.metadata.source]]]

\* upload_to_pinecone is entered.  attempts is a history variable: the
\* batches given to upsert, in order, each with whether it was stored.
InitUp ==
  /\ ui = "cli"
  /\ running = TRUE
  /\ history = 1
  /\ heap = (1 :> <<>>)
  /\ calls = [c \in CallIds |-> IdleCall]
  /\ asked = <<>>
  /\ cleared = -1
  /\ fmt = NoFmt
  /\ rt = NoRt
  /\ ck = NoCk
  /\ \E n \in 0 .. MaxVectors, batch_size \in UploadBatchSizes :
       ix = [pc |-> "upload", vectors |-> Vectors(n), batch_size |-> batch_size,
             i |-> 0, stored |-> {}, attempts |-> <<>>, total_vector_count |-> -1]

\* one turn of `for i in range(0, len(vectors), batch_size)`: upsert stores the batch
Upsert ==
  /\ ix.pc = "upload"
  /\ ix.i < Len(ix.vectors)
  /\ LET batch == PySlice(ix.vectors, ix.i, ix.i + ix.batch_size)
     IN ix' = [ix EXCEPT !.stored = ix.stored \cup {batch[k] : k \in 1 .. Len(batch)},
                         !.attempts = Append(ix.attempts, [batch |-> batch, stored |-> TRUE]),
                         !.i = ix.i + ix.batch_size]
  /\ UNCHANGED <<ui, running, history, heap, calls, asked, cleared, fmt, rt, ck>>

\* UpsertFail as it would be if the failure ended the loop
UpsertFail_break ==
  /\ ix.pc = "upload"
  /\ ix.i < Len(ix.vectors)
  /\ LET batch == PySlice(ix.vectors, ix.i, ix.i + ix.batch_size)
     IN ix' = [ix EXCEPT !.attempts = Append(ix.attempts, [batch |-> batch, stored |-> FALSE]),
                         !.i = Len(ix.vectors)]
  /\ UNCHANGED <<ui, running, history, heap, calls, asked, cleared, fmt, rt, ck>>

\* one turn of the loop: upsert raises, `except Exception` prints and continues
UpsertFail ==
  /\ ix.pc = "upload"
  /\ ix.i < Len(ix.vectors)
  /\ LET batch == PySlice(ix.vectors, ix.i, ix.i + ix.batch_size)
     IN ix' = [ix EXCEPT !.attempts = Append(ix.attempts, [batch |-> batch, stored |-> FALSE]),
                         !.i = ix.i + ix.batch_size]
  /\ UNCHANGED <<ui, running, history, heap, calls, asked, cleared, fmt, rt, ck>>

\* the loop is over: "upload complete!" is printed and the function returns
UploadReturn ==
  /\ ix.pc = "upload"
  /\ ix.i >= Len(ix.vectors)
  /\ ix' = [ix EXCEPT !.pc = "uploaded"]
  /\ UNCHANGED <<ui, running, history, heap, calls, asked, cleared, fmt, rt, ck>>

\* index_all_chunks: describe_index_stats returns and the count is reported
DescribeStats ==
  /\ ix.pc = "uploaded"
  /\ ix' = [ix EXCEPT !.pc = "indexed", !.total_vector_count = Cardinality(ix.stored)]
  /\ UNCHANGED <<ui, running, history, heap, calls, asked, cleared, fmt, rt, ck>>

\* index_all_chunks: describe_index_stats raises; main prints the error
DescribeFail ==
  /\ ix.pc = "uploaded"
  /\ ix' = [ix EXCEPT !.pc = "raised"]
  /\ UNCHANGED <<ui, running, history, heap, calls, asked, cleared, fmt, rt, ck>>

NextUp ==
  \/ Upsert
  \/ UpsertFail
  \/ UploadReturn
  \/ DescribeStats
  \/ DescribeFail

\* the loop and the calls after it are sequential code: a step that can be
\* taken is taken
SpecUp == InitUp /\ [][NextUp]_vars /\ WF_vars(NextUp)

\* the concatenation of the batches of the attempts
RECURSIVE Attempted(_)
Attempted(attempts) ==
  IF attempts = <<>> THEN <<>> ELSE Head(attempts).batch \o Attempted(Tail(attempts))

\* C23: the j-th attempt is the j-th slice of batch_size vectors, of at least
\* one and at most batch_size vectors; what was attempted is always the
\* vectors before position i, each once and in order, whether or not an
\* upsert failed; exactly the vectors of the batches that did not fail are
\* stored; and the upload always returns, having attempted every vector.
C23_EveryBatchOnce ==
  /\ [](ix.pc # "off" =>
          /\ \A j \in 1 .. Len(ix.attempts) :
               /\ ix.attempts[j].batch
                    = PySlice(ix.vectors, (j - 1) * ix.batch_size, j * ix.batch_size)
               /\ Len(ix.attempts[j].batch) \in 1 .. ix.batch_size
          /\ Attempted(ix.attempts) = SubSeq(ix.vectors, 1, Min(ix.i, Len(ix.vectors)))
          /\ ix.stored = UNION {{ix.attempts[j].batch[k] : k \in 1 .. Len(ix.attempts[j].batch)} :
                                  j \in {a \in 1 .. Len(ix.attempts) : ix.attempts[a].stored}}
          /\ ix.pc # "upload" => Attempted(ix.attempts) = ix.vectors)
  /\ <>(ix.pc # "upload")

\* an upload that returned although a batch failed: a later batch was still
\* attempted and stored, and some vectors are not in the index
C23_Witness ==
  /\ ix.pc = "indexed"
  /\ Len(ix.attempts) >= 3
  /\ ~ix.attempts[1].stored
  /\ ix.attempts[2].stored
  /\ Len(ix.attempts[Len(ix.attempts)].batch) < ix.batch_size
  /\ ix.total_vector_count < Len(ix.vectors)
  /\ ix.total_vector_count > 0

====
